---- MODULE Spec2Model ----
(***************************************************************************)
(* Parcel delivery-status lifecycle, payment ledger and rider cashout       *)
(* ledger of the zap-shift server (src/index.js).                           *)
(*                                                                          *)
(* Every handler is an async function: it runs up to its next awaited       *)
(* database call, and other requests may be served in between.  One action  *)
(* of the model is one database call of a handler together with the         *)
(* synchronous code that follows it up to the next database call (or the    *)
(* response).  The code before the first database call (reading the         *)
(* request, verifyFBToken) touches no shared state and is part of the       *)
(* handler's first action.                                                  *)
(*                                                                          *)
(* Units: rider_earning is kept in tenths of a currency unit, so that       *)
(* cost * 0.8 and cost * 0.3 are the integers cost * 8 and cost * 3.        *)
(* A payment amount (minor units / 100) is kept as whole and hundredths.    *)
(* Fields no handler reads back (parcelName, trackingId, paymentMethod,     *)
(* the ledgers' own timestamps) are left out of the documents.              *)
(***************************************************************************)
EXTENDS Integers, Sequences, FiniteSets, TLC

VARIABLES
    users,      \* usersCollection, in insertion order
    riders,     \* ridersCollection: rider _id -> rider document
    parcels,    \* parcelCollection: parcel _id -> parcel document
    payments,   \* paymentCollection, in insertion order
    cashouts,   \* cashoutsCollection, in insertion order
    tracking,   \* trackingCollection, in insertion order
    nextId,     \* number of parcel _ids generated so far
    clock,      \* the server's wall clock (new Date())
    req,        \* the requests being served: slot -> handler position and locals
    resp        \* the response sent last

vars == <<users, riders, parcels, payments, cashouts, tracking, nextId, clock, req, resp>>

----------------------------------------------------------------------------
(* Bounds *)

MaxParcels == 2      \* parcels ever created
MaxPayments == 2     \* length of the payment ledger
MaxCashouts == 2     \* length of the cashout ledger
MaxClock == 1        \* clock ticks
MaxRiders == 3       \* riders ever registered
MaxTracking == 1     \* length of the tracking log
MaxUsers == 5        \* users ever registered

ParcelIds == 1..MaxParcels             \* the _ids insertOne generates
Slots == {"s1", "s2"}                 \* requests served at the same time
Costs == {1000, 25}
Districts == {"Dhaka", "Sylhet"}
Amounts == {50000, 1999}

----------------------------------------------------------------------------
(* Values *)

Null == -1                \* a field that is absent (undefined)
NoCred == "none"          \* no Authorization header, or a token that is rejected
Missing == "missing"      \* a body field that is absent

Emails == {"admin@zap", "r1@zap", "r2@zap"}
RiderIds == {1, 2}
Statuses == {"pending", "assigned", "on_the_way", "delivered"}

RateSame == 8             \* 0.8, in tenths
RateOther == 3            \* 0.3, in tenths

\* a user document as POST /users writes it
UserDoc(email, name, role, at) ==
    [email |-> email, name |-> name, photoURL |-> name, role |-> role,
     created_at |-> at, last_login |-> at]

InitUsers ==
    <<UserDoc("admin@zap", "Admin", "admin", 0), UserDoc("r1@zap", "Rahim", "rider", 0),
      UserDoc("r2@zap", "Karim", "rider", 0)>>

InitRiders ==
    [i \in RiderIds |->
        IF i = 1
        THEN [name |-> "Rahim", email |-> "r1@zap", phone |-> "0171", status |-> "approved"]
        ELSE [name |-> "Karim", email |-> "r2@zap", phone |-> "0182", status |-> "approved"]]

IdleReq ==
    [op |-> "none", pc |-> "idle", user |-> NoCred, pid |-> Null, rid |-> Null,
     ds |-> "none", earning |-> Null, name |-> "none", amount |-> Null,
     email |-> "none", phone |-> "none", txn |-> "none", ts |-> Null,
     role |-> "none", found |-> 0]

NoResp == [status |-> 0, msg |-> "none"]

Init ==
    /\ users = InitUsers
    /\ riders = InitRiders
    /\ parcels = <<>>
    /\ payments = <<>>
    /\ cashouts = <<>>
    /\ tracking = <<>>
    /\ nextId = 0
    /\ clock = 0
    /\ req = [s \in Slots |-> IdleReq]
    /\ resp = NoResp

----------------------------------------------------------------------------
(* Helpers *)

Free(s) == req[s].pc = "idle"

\* res.status(code).send({ message }): the handler is finished
Respond(s, code, message) ==
    /\ req' = [req EXCEPT ![s] = IdleReq]
    /\ resp' = [status |-> code, msg |-> message]

InFlight(op) == Cardinality({s \in Slots : req[s].op = op})

\* usersCollection.findOne({ email }): the position of the first user with
\* that email, or 0
FindUser(email) ==
    IF \E k \in 1..Len(users) : users[k].email = email
    THEN CHOOSE k \in 1..Len(users) :
            /\ users[k].email = email
            /\ \A j \in 1..Len(users) : users[j].email = email => k <= j
    ELSE 0

\* user?.role of that user
Role(email) == IF FindUser(email) = 0 THEN "none" ELSE users[FindUser(email)].role

\* ridersCollection.findOne({ email }): the first rider with that email, or Null
FindRiderByEmail(e) ==
    IF \E i \in DOMAIN riders : riders[i].email = e
    THEN CHOOSE i \in DOMAIN riders :
            /\ riders[i].email = e
            /\ \A j \in DOMAIN riders : riders[j].email = e => i <= j
    ELSE Null

\* { $set: upd } applied to one document
SetFields(doc, upd) == [f \in DOMAIN doc |-> IF f \in DOMAIN upd THEN upd[f] ELSE doc[f]]

\* parcelCollection.updateOne({ _id: p }, { $set: upd }): the collection afterwards
UpdateOne(p, upd) ==
    IF p \in DOMAIN parcels
    THEN [parcels EXCEPT ![p] = SetFields(parcels[p], upd)]
    ELSE parcels

\* result.modifiedCount of that call: a matched document that the update
\* leaves as it was is not counted
ModifiedCount(p, upd) ==
    IF p \in DOMAIN parcels /\ SetFields(parcels[p], upd) # parcels[p] THEN 1 ELSE 0

----------------------------------------------------------------------------
(* Clock *)

Tick ==
    /\ clock < MaxClock
    /\ clock' = clock + 1
    /\ UNCHANGED <<tracking, users, riders, parcels, payments, cashouts, nextId, req, resp>>

----------------------------------------------------------------------------
(* POST /parcels *)

\* the document the client submits
NewParcel(cost, sd, rd) ==
    [cost |-> cost, senderDistrict |-> sd, receiverDistrict |-> rd,
     payment_status |-> "unpaid", delivery_status |-> "pending",
     assigned_rider_id |-> Null, assigned_rider_name |-> "none",
     assigned_rider_email |-> "none", assigned_rider_phone |-> "none",
     picked_at |-> Null, delivered_at |-> Null, rider_earning |-> Null]

CreateParcel(s, cred, cost, sd, rd) ==
    /\ Free(s)
    /\ IF cred = NoCred
       THEN /\ Respond(s, 401, "Unauthorized")
            /\ UNCHANGED <<parcels, nextId>>
       ELSE /\ nextId < MaxParcels
            /\ nextId' = nextId + 1
            /\ parcels' = [p \in DOMAIN parcels \cup {nextId + 1} |->
                  IF p \in DOMAIN parcels THEN parcels[p] ELSE NewParcel(cost, sd, rd)]
            /\ Respond(s, 201, "Parcel created successfully")
    /\ UNCHANGED <<tracking, users, riders, payments, cashouts, clock>>

(* DELETE /parcels/:id *)

DeleteParcel(s, cred, p) ==
    /\ Free(s)
    /\ IF cred = NoCred
       THEN /\ Respond(s, 401, "Unauthorized")
            /\ UNCHANGED parcels
       ELSE /\ parcels' = [q \in DOMAIN parcels \ {p} |-> parcels[q]]
            /\ Respond(s, 200, "deleted")
    /\ UNCHANGED <<tracking, users, riders, payments, cashouts, nextId, clock>>

----------------------------------------------------------------------------
(* PATCH /parcels/:id/pick *)

\* mutant: the pick also resets the payment
PickFieldsUnpaying ==
    [picked_at |-> clock, delivery_status |-> "on_the_way", payment_status |-> "unpaid"]

\* the $set document of the pick
PickFields == [picked_at |-> clock, delivery_status |-> "on_the_way"]

Pick(s, cred, p) ==
    /\ Free(s)
    /\ IF cred = NoCred
       THEN /\ Respond(s, 401, "Unauthorized")
            /\ UNCHANGED parcels
       ELSE /\ parcels' = UpdateOne(p, PickFields)
            /\ IF ModifiedCount(p, PickFields) = 0
               THEN Respond(s, 404, "Parcel not found or already picked")
               ELSE Respond(s, 200, "Parcel marked as picked")
    /\ UNCHANGED <<tracking, users, riders, payments, cashouts, nextId, clock>>

----------------------------------------------------------------------------
(* PATCH /rider/parcels/:id/status *)

\* verifyFBToken, then ridersCollection.findOne({ email: riderEmail })
RiderStatusStart(s, cred, p, ds) ==
    /\ Free(s)
    /\ IF cred = NoCred
       THEN Respond(s, 401, "Unauthorized")
       ELSE IF FindRiderByEmail(cred) = Null
            THEN Respond(s, 404, "Rider not found")
            ELSE /\ req' = [req EXCEPT ![s] = [IdleReq EXCEPT !.op = "status",
                               !.pc = "findParcel", !.user = cred, !.pid = p, !.ds = ds,
                               !.rid = FindRiderByEmail(cred)]]
                 /\ UNCHANGED resp
    /\ UNCHANGED <<tracking, users, riders, parcels, payments, cashouts, nextId, clock>>

\* mutant: the filter without assigned_rider_id
AnyParcelFound(p, rid) ==
    p \in DOMAIN parcels

\* the filter { _id, assigned_rider_id: rider._id } matches a parcel
AssignedParcelFound(p, rid) ==
    p \in DOMAIN parcels /\ parcels[p].assigned_rider_id = rid

\* mutant: the two rates taken the wrong way round
EarningRatesSwapped(parcel) ==
    parcel.cost * (IF parcel.senderDistrict = parcel.receiverDistrict THEN RateOther ELSE RateSame)

\* earning = parcel.cost * rate
Earning(parcel) ==
    parcel.cost * (IF parcel.senderDistrict = parcel.receiverDistrict THEN RateSame ELSE RateOther)

\* parcelCollection.findOne({ _id, assigned_rider_id: rider._id }), then the
\* update fields are prepared from the parcel that was read
RiderStatusFindParcel(s) ==
    /\ req[s].op = "status" /\ req[s].pc = "findParcel"
    /\ IF AssignedParcelFound(req[s].pid, req[s].rid)
       THEN /\ req' = [req EXCEPT ![s].pc = "update",
                          ![s].ts = IF req[s].ds = "delivered" THEN clock ELSE Null,
                          ![s].earning = IF req[s].ds = "delivered"
                                         THEN Earning(parcels[req[s].pid]) ELSE Null]
            /\ UNCHANGED resp
       ELSE Respond(s, 404, "Parcel not found or not assigned to you")
    /\ UNCHANGED <<tracking, users, riders, parcels, payments, cashouts, nextId, clock>>

\* mutant: the status update also resets the payment
StatusFieldsUnpaying(r) ==
    IF r.ds = "delivered"
    THEN [delivery_status |-> r.ds, delivered_at |-> r.ts, rider_earning |-> r.earning,
          payment_status |-> "unpaid"]
    ELSE [delivery_status |-> r.ds, payment_status |-> "unpaid"]

\* updateFields of the handler
StatusFields(r) ==
    IF r.ds = "delivered"
    THEN [delivery_status |-> r.ds, delivered_at |-> r.ts, rider_earning |-> r.earning]
    ELSE [delivery_status |-> r.ds]

\* parcelCollection.updateOne({ _id }, { $set: updateFields })
RiderStatusUpdate(s) ==
    /\ req[s].op = "status" /\ req[s].pc = "update"
    /\ parcels' = UpdateOne(req[s].pid, StatusFields(req[s]))
    /\ Respond(s, 200, "Status updated successfully")
    /\ UNCHANGED <<tracking, users, riders, payments, cashouts, nextId, clock>>

----------------------------------------------------------------------------
(* POST /rider/cashout *)

\* mutant: the filter without delivery_status
UndeliveredParcelFound(p, email) ==
    /\ p \in DOMAIN parcels
    /\ parcels[p].assigned_rider_email = email

\* the filter { _id, assigned_rider_email, delivery_status: "delivered" }
\* matches a parcel
DeliveredParcelFound(p, email) ==
    /\ p \in DOMAIN parcels
    /\ parcels[p].assigned_rider_email = email
    /\ parcels[p].delivery_status = "delivered"

\* verifyFBToken, then parcelCollection.findOne of the delivered parcel
CashoutStart(s, cred, p) ==
    /\ Free(s)
    /\ Len(cashouts) + InFlight("cashout") < MaxCashouts
    /\ IF cred = NoCred
       THEN Respond(s, 401, "Unauthorized")
       ELSE IF DeliveredParcelFound(p, cred)
            THEN /\ req' = [req EXCEPT ![s] = [IdleReq EXCEPT !.op = "cashout",
                               !.pc = "check", !.user = cred, !.pid = p,
                               !.name = parcels[p].assigned_rider_name,
                               !.earning = parcels[p].rider_earning]]
                 /\ UNCHANGED resp
            ELSE Respond(s, 404, "Parcel not found or not delivered")
    /\ UNCHANGED <<tracking, users, riders, parcels, payments, cashouts, nextId, clock>>

\* mutant: the check for an earlier cashout finds nothing
CashoutNeverExists(p) == FALSE

\* cashoutsCollection.findOne({ parcel_id }) returns a record
CashoutExists(p) == \E k \in 1..Len(cashouts) : cashouts[k].parcel_id = p

\* the check for an earlier cashout of the parcel
CashoutCheck(s) ==
    /\ req[s].op = "cashout" /\ req[s].pc = "check"
    /\ IF CashoutExists(req[s].pid)
       THEN Respond(s, 400, "Already cashed out")
       ELSE /\ req' = [req EXCEPT ![s].pc = "insert"]
            /\ UNCHANGED resp
    /\ UNCHANGED <<tracking, users, riders, parcels, payments, cashouts, nextId, clock>>

\* mutant: the record written without the parcel's earning
CashoutRecordNoEarning(r) ==
    [parcel_id |-> r.pid, rider_email |-> r.user, rider_name |-> r.name,
     earning |-> 0]

\* the document the handler inserts
CashoutRecord(r) ==
    [parcel_id |-> r.pid, rider_email |-> r.user, rider_name |-> r.name,
     earning |-> r.earning]

\* cashoutsCollection.insertOne({...})
CashoutInsert(s) ==
    /\ req[s].op = "cashout" /\ req[s].pc = "insert"
    /\ cashouts' = Append(cashouts, CashoutRecord(req[s]))
    /\ Respond(s, 200, "Cash out successful")
    /\ UNCHANGED <<tracking, users, riders, parcels, payments, nextId, clock>>

----------------------------------------------------------------------------
(* PATCH /parcels/:id/assign *)

\* verifyFBToken, then verifyAdmin: usersCollection.findOne({ email })
AssignStart(s, cred, p, rid) ==
    /\ Free(s)
    /\ IF cred = NoCred
       THEN Respond(s, 401, "Unauthorized")
       ELSE IF Role(cred) # "admin"
            THEN Respond(s, 403, "Forbidden")
            ELSE /\ req' = [req EXCEPT ![s] = [IdleReq EXCEPT !.op = "assign",
                               !.pc = "findRider", !.user = cred, !.pid = p, !.rid = rid]]
                 /\ UNCHANGED resp
    /\ UNCHANGED <<tracking, users, riders, parcels, payments, cashouts, nextId, clock>>

\* mutant: the rider is not looked up
AssignFindRiderUnchecked(s) ==
    /\ req[s].op = "assign" /\ req[s].pc = "findRider"
    /\ req' = [req EXCEPT ![s].pc = "update"]
    /\ UNCHANGED <<tracking, users, riders, parcels, payments, cashouts, nextId, clock, resp>>

\* ridersCollection.findOne({ _id: riderId })
AssignFindRider(s) ==
    /\ req[s].op = "assign" /\ req[s].pc = "findRider"
    /\ IF req[s].rid \in DOMAIN riders
       THEN /\ req' = [req EXCEPT ![s].pc = "update",
                          ![s].name = riders[req[s].rid].name,
                          ![s].email = riders[req[s].rid].email,
                          ![s].phone = riders[req[s].rid].phone]
            /\ UNCHANGED resp
       ELSE Respond(s, 404, "Rider not found")
    /\ UNCHANGED <<tracking, users, riders, parcels, payments, cashouts, nextId, clock>>

\* mutant: the assignment of an earlier revision, which stores no rider email
\* and marks the parcel on_the_way
AssignFieldsNoEmail(r) ==
    [assigned_rider_id |-> r.rid, assigned_rider_name |-> r.name,
     assigned_rider_phone |-> r.phone, delivery_status |-> "on_the_way"]

\* the $set document of the assignment, from the rider that was read
AssignFields(r) ==
    [assigned_rider_id |-> r.rid, assigned_rider_name |-> r.name,
     assigned_rider_email |-> r.email, assigned_rider_phone |-> r.phone,
     delivery_status |-> "assigned"]

\* parcelCollection.updateOne({ _id }, { $set: {...} })
AssignUpdate(s) ==
    /\ req[s].op = "assign" /\ req[s].pc = "update"
    /\ parcels' = UpdateOne(req[s].pid, AssignFields(req[s]))
    /\ Respond(s, 200, "Rider assigned successfully")
    /\ UNCHANGED <<tracking, users, riders, payments, cashouts, nextId, clock>>

----------------------------------------------------------------------------
(* POST /payments *)

\* mutant: only the parcel id is required
OnlyParcelIdRequired(p, email, txn, amount) ==
    p = Null

\* !parcelId || !email || !transactionId || !amount  (0 is falsy)
PaymentInfoMissing(p, email, txn, amount) ==
    p = Null \/ email = Missing \/ txn = Missing \/ amount = Null \/ amount = 0

\* mutant: the amount stored as it came, in minor units
NotDivided(a) == [whole |-> a, frac |-> 0]

\* amount / 100
Div100(a) == [whole |-> a \div 100, frac |-> a % 100]

\* verifyFBToken, the required-field check, then
\* parcelCollection.updateOne({ _id }, { $set: { payment_status: "paid" } })
PaymentStart(s, cred, p, email, txn, amount) ==
    /\ Free(s)
    /\ Len(payments) + InFlight("payment") < MaxPayments
    /\ IF cred = NoCred
       THEN /\ Respond(s, 401, "Unauthorized")
            /\ UNCHANGED parcels
       ELSE IF PaymentInfoMissing(p, email, txn, amount)
            THEN /\ Respond(s, 400, "Missing payment information")
                 /\ UNCHANGED parcels
            ELSE /\ parcels' = UpdateOne(p, [payment_status |-> "paid"])
                 /\ req' = [req EXCEPT ![s] = [IdleReq EXCEPT !.op = "payment",
                               !.pc = "insert", !.user = cred, !.pid = p, !.email = email,
                               !.txn = txn, !.amount = amount]]
                 /\ UNCHANGED resp
    /\ UNCHANGED <<tracking, users, riders, payments, cashouts, nextId, clock>>

\* paymentRecord
PaymentRecord(r) ==
    [parcelId |-> r.pid, email |-> r.email, transactionId |-> r.txn,
     amount |-> Div100(r.amount)]

\* mutant: the record replaces the ledger instead of being added to it
PaymentInsertOverwrites(s) ==
    /\ req[s].op = "payment" /\ req[s].pc = "insert"
    /\ payments' = <<PaymentRecord(req[s])>>
    /\ Respond(s, 200, "Payment recorded, parcel marked as paid")
    /\ UNCHANGED <<tracking, users, riders, parcels, cashouts, nextId, clock>>

\* paymentCollection.insertOne(paymentRecord)
PaymentInsert(s) ==
    /\ req[s].op = "payment" /\ req[s].pc = "insert"
    /\ payments' = Append(payments, PaymentRecord(req[s]))
    /\ Respond(s, 200, "Payment recorded, parcel marked as paid")
    /\ UNCHANGED <<tracking, users, riders, parcels, cashouts, nextId, clock>>

\* the updateOne rejects: caught, answered 500, nothing written
PaymentUpdateFails(s, cred) ==
    /\ Free(s)
    /\ cred # NoCred
    /\ Respond(s, 500, "Internal server error")
    /\ UNCHANGED <<tracking, users, riders, parcels, payments, cashouts, nextId, clock>>

\* the insertOne rejects: caught, answered 500; the parcel stays paid
PaymentInsertFails(s) ==
    /\ req[s].op = "payment" /\ req[s].pc = "insert"
    /\ Respond(s, 500, "Internal server error")
    /\ UNCHANGED <<tracking, users, riders, parcels, payments, cashouts, nextId, clock>>

----------------------------------------------------------------------------
(* verifyAdmin *)

\* mutant: the role check that lets every identity through
NeverRefused(cred) == FALSE

\* user?.role !== "admin" for the user found by the caller's email
NotAdmin(cred) == Role(cred) # "admin"

\* a request without a response: the rejected promise of an async handler or
\* middleware that has no try/catch is never answered
Hang(s) ==
    /\ req' = [req EXCEPT ![s] = [IdleReq EXCEPT !.pc = "hung"]]
    /\ UNCHANGED resp

\* verifyFBToken accepts the token, and usersCollection.findOne of
\* verifyAdmin rejects: the middleware has no try/catch
VerifyAdminFails(s, cred) ==
    /\ Free(s)
    /\ cred # NoCred
    /\ Hang(s)
    /\ UNCHANGED <<tracking, users, riders, parcels, payments, cashouts, nextId, clock>>

----------------------------------------------------------------------------
(* GET /riders/pending *)

\* verifyFBToken, then verifyAdmin: usersCollection.findOne({ email })
PendingRidersStart(s, cred) ==
    /\ Free(s)
    /\ IF cred = NoCred
       THEN Respond(s, 401, "Unauthorized")
       ELSE IF NotAdmin(cred)
            THEN Respond(s, 403, "Forbidden")
            ELSE /\ req' = [req EXCEPT ![s] = [IdleReq EXCEPT !.op = "pendingRiders",
                               !.pc = "find", !.user = cred]]
                 /\ UNCHANGED resp
    /\ UNCHANGED <<tracking, users, riders, parcels, payments, cashouts, nextId, clock>>

\* ridersCollection.find({ status: "pending" }).toArray()
PendingRidersFind(s) ==
    /\ req[s].op = "pendingRiders" /\ req[s].pc = "find"
    /\ Respond(s, 200, "pendingRiders")
    /\ UNCHANGED <<tracking, users, riders, parcels, payments, cashouts, nextId, clock>>

\* the find rejects: caught, answered 500
PendingRidersFindFails(s) ==
    /\ req[s].op = "pendingRiders" /\ req[s].pc = "find"
    /\ Respond(s, 500, "Internal Server Error")
    /\ UNCHANGED <<tracking, users, riders, parcels, payments, cashouts, nextId, clock>>

----------------------------------------------------------------------------
(* PATCH /users/:email/role *)

\* verifyFBToken, then verifyAdmin: usersCollection.findOne({ email })
UserRoleStart(s, cred, email, role) ==
    /\ Free(s)
    /\ IF cred = NoCred
       THEN Respond(s, 401, "Unauthorized")
       ELSE IF NotAdmin(cred)
            THEN Respond(s, 403, "Forbidden")
            ELSE /\ req' = [req EXCEPT ![s] = [IdleReq EXCEPT !.op = "userRole",
                               !.pc = "update", !.user = cred, !.email = email,
                               !.role = role]]
                 /\ UNCHANGED resp
    /\ UNCHANGED <<tracking, users, riders, parcels, payments, cashouts, nextId, clock>>

\* usersCollection.updateOne({ email }, { $set: { role } }): the collection
\* afterwards
SetRole(email, role) ==
    IF FindUser(email) = 0 THEN users
    ELSE [users EXCEPT ![FindUser(email)].role = role]

UserRoleUpdate(s) ==
    /\ req[s].op = "userRole" /\ req[s].pc = "update"
    /\ users' = SetRole(req[s].email, req[s].role)
    /\ Respond(s, 200, "modifiedCount")
    /\ UNCHANGED <<tracking, riders, parcels, payments, cashouts, nextId, clock>>

\* the update rejects: caught, answered 500
UserRoleUpdateFails(s) ==
    /\ req[s].op = "userRole" /\ req[s].pc = "update"
    /\ Respond(s, 500, "Failed to update role")
    /\ UNCHANGED <<tracking, users, riders, parcels, payments, cashouts, nextId, clock>>

----------------------------------------------------------------------------
(* POST /users *)

\* usersCollection.updateOne({ email }, { $setOnInsert: { name, photoURL,
\* role, created_at }, $set: { last_login } }, { upsert: true }).  No
\* middleware: the credential is not looked at.  The collection has no unique
\* index on email, so the upsert is a query and then a write: here the query.
PostUserQuery(s, cred, email, name, role, at) ==
    /\ Free(s)
    /\ Len(users) + InFlight("postUser") < MaxUsers
    /\ req' = [req EXCEPT ![s] = [IdleReq EXCEPT !.op = "postUser", !.pc = "upsert",
                  !.user = cred, !.email = email, !.name = name, !.role = role,
                  !.ts = at, !.found = FindUser(email)]]
    /\ UNCHANGED resp
    /\ UNCHANGED <<tracking, users, riders, parcels, payments, cashouts, nextId, clock>>

\* the collection after the write of the upsert: the user that the query
\* found gets the last_login, and a user is inserted when it found none
Upsert(r) ==
    IF r.found = 0
    THEN Append(users, UserDoc(r.email, r.name, r.role, r.ts))
    ELSE [users EXCEPT ![r.found].last_login = r.ts]

\* the write of the upsert, and res.send(result)
PostUserWrite(s) ==
    /\ req[s].op = "postUser" /\ req[s].pc = "upsert"
    /\ users' = Upsert(req[s])
    /\ Respond(s, 200, "upserted")
    /\ UNCHANGED <<tracking, riders, parcels, payments, cashouts, nextId, clock>>

\* the upsert rejects: the handler has no try/catch
PostUserFails(s, cred) ==
    /\ Free(s)
    /\ Hang(s)
    /\ UNCHANGED <<tracking, users, riders, parcels, payments, cashouts, nextId, clock>>

----------------------------------------------------------------------------
(* POST /riders *)

\* verifyFBToken, then verifyAdmin: usersCollection.findOne({ email })
PostRiderStart(s, cred, name, email, phone) ==
    /\ Free(s)
    /\ Cardinality(DOMAIN riders) + InFlight("postRider") < MaxRiders
    /\ IF cred = NoCred
       THEN Respond(s, 401, "Unauthorized")
       ELSE IF NotAdmin(cred)
            THEN Respond(s, 403, "Forbidden")
            ELSE /\ req' = [req EXCEPT ![s] = [IdleReq EXCEPT !.op = "postRider",
                               !.pc = "insert", !.user = cred, !.name = name,
                               !.email = email, !.phone = phone]]
                 /\ UNCHANGED resp
    /\ UNCHANGED <<tracking, users, riders, parcels, payments, cashouts, nextId, clock>>

\* the _id insertOne generates
NewRiderId == Cardinality(DOMAIN riders) + 1

\* ridersCollection.insertOne(rider)
PostRiderInsert(s) ==
    /\ req[s].op = "postRider" /\ req[s].pc = "insert"
    /\ riders' = [i \in DOMAIN riders \cup {NewRiderId} |->
                     IF i \in DOMAIN riders THEN riders[i]
                     ELSE [name |-> req[s].name, email |-> req[s].email,
                           phone |-> req[s].phone, status |-> "pending"]]
    /\ Respond(s, 200, "inserted")
    /\ UNCHANGED <<tracking, users, parcels, payments, cashouts, nextId, clock>>

\* the insert rejects: the handler has no try/catch
PostRiderInsertFails(s) ==
    /\ req[s].op = "postRider" /\ req[s].pc = "insert"
    /\ Hang(s)
    /\ UNCHANGED <<tracking, users, riders, parcels, payments, cashouts, nextId, clock>>

----------------------------------------------------------------------------
(* PATCH /riders/:id/status *)

\* verifyFBToken, then verifyAdmin: usersCollection.findOne({ email })
RiderApprovalStart(s, cred, rid, status, email) ==
    /\ Free(s)
    /\ IF cred = NoCred
       THEN Respond(s, 401, "Unauthorized")
       ELSE IF NotAdmin(cred)
            THEN Respond(s, 403, "Forbidden")
            ELSE /\ req' = [req EXCEPT ![s] = [IdleReq EXCEPT !.op = "riderApproval",
                               !.pc = "setStatus", !.user = cred, !.rid = rid,
                               !.ds = status, !.email = email]]
                 /\ UNCHANGED resp
    /\ UNCHANGED <<tracking, users, riders, parcels, payments, cashouts, nextId, clock>>

\* ridersCollection.updateOne({ _id }, { $set: { status } }); the handler
\* goes on to the user's role only if (status === "approved")
RiderApprovalSetStatus(s) ==
    /\ req[s].op = "riderApproval" /\ req[s].pc = "setStatus"
    /\ riders' = IF req[s].rid \in DOMAIN riders
                 THEN [riders EXCEPT ![req[s].rid].status = req[s].ds]
                 ELSE riders
    /\ IF req[s].ds = "approved"
       THEN /\ req' = [req EXCEPT ![s].pc = "setRole"]
            /\ UNCHANGED resp
       ELSE Respond(s, 200, "result")
    /\ UNCHANGED <<tracking, users, parcels, payments, cashouts, nextId, clock>>

\* usersCollection.updateOne({ email }, { $set: { role: "rider" } })
RiderApprovalSetRole(s) ==
    /\ req[s].op = "riderApproval" /\ req[s].pc = "setRole"
    /\ users' = SetRole(req[s].email, "rider")
    /\ Respond(s, 200, "result")
    /\ UNCHANGED <<tracking, riders, parcels, payments, cashouts, nextId, clock>>

\* either update rejects: caught, answered 500; what was written stays
RiderApprovalFails(s) ==
    /\ req[s].op = "riderApproval" /\ req[s].pc \in {"setStatus", "setRole"}
    /\ Respond(s, 500, "Internal Server Error")
    /\ UNCHANGED <<tracking, users, riders, parcels, payments, cashouts, nextId, clock>>

----------------------------------------------------------------------------
(* POST /tracking *)

\* the log the handler builds (its time is left out)
TrackingLog(p, status) == [parcelId |-> p, status |-> status]

\* trackingCollection.insertOne(log).  No middleware: the credential is not
\* looked at.
PostTracking(s, cred, p, status) ==
    /\ Free(s)
    /\ Len(tracking) < MaxTracking
    /\ tracking' = Append(tracking, TrackingLog(p, status))
    /\ Respond(s, 200, "insertedId")
    /\ UNCHANGED <<users, riders, parcels, payments, cashouts, nextId, clock>>

\* the insert rejects: the handler has no try/catch
PostTrackingFails(s, cred) ==
    /\ Free(s)
    /\ Hang(s)
    /\ UNCHANGED <<tracking, users, riders, parcels, payments, cashouts, nextId, clock>>

----------------------------------------------------------------------------
(* POST /create-payment-intent *)

\* stripe.paymentIntents.create({ amount: Math.round(amount * 100), ... }):
\* nothing is stored.  No middleware: the credential is not looked at.
CreatePaymentIntent(s, cred, amount) ==
    /\ Free(s)
    /\ Respond(s, 200, "clientSecret")
    /\ UNCHANGED <<tracking, users, riders, parcels, payments, cashouts, nextId, clock>>

\* the gateway call rejects: caught, answered 500
CreatePaymentIntentFails(s, cred) ==
    /\ Free(s)
    /\ Respond(s, 500, "Internal Server Error")
    /\ UNCHANGED <<tracking, users, riders, parcels, payments, cashouts, nextId, clock>>

----------------------------------------------------------------------------
(* Specifications *)

AllFree == \A s \in Slots : Free(s)

\* the _ids a request can name: those generated so far (of parcels that
\* exist or were deleted)
IdsSoFar == 1..nextId

\* The delivery lifecycle under concurrent requests: parcels are created and
\* deleted, assigned by the admin or refused to a rider, picked, and moved by
\* the riders (and refused to a caller with no rider record).
LifeStart(s) ==
    \/ /\ nextId = 0
       /\ \E c \in Costs, sd \in Districts, rd \in Districts :
             CreateParcel(s, "admin@zap", c, sd, rd)
    \/ \E p \in IdsSoFar : DeleteParcel(s, "admin@zap", p)
    \/ \E p \in IdsSoFar : Pick(s, "r1@zap", p)
    \/ \E cred \in Emails, p \in IdsSoFar, ds \in {"pending", "delivered"} :
          RiderStatusStart(s, cred, p, ds)
    \/ \E cred \in {"admin@zap", "r1@zap"}, p \in IdsSoFar, rid \in RiderIds \cup {0} :
          AssignStart(s, cred, p, rid)

LifeStep(s) ==
    \/ RiderStatusFindParcel(s)
    \/ RiderStatusUpdate(s)
    \/ AssignFindRider(s)
    \/ AssignUpdate(s)

LifeNext ==
    \/ Tick
    \/ \E s \in Slots : LifeStart(s)
    \/ \E s \in Slots : LifeStep(s)

LifeSpec == Init /\ [][LifeNext]_vars

\* The cashout ledger under concurrent requests, for one parcel that is
\* created, assigned, delivered (or moved back) and deleted while the riders
\* cash out.  No tick: the requests fall into one millisecond.
CashStart(s) ==
    \/ nextId = 0 /\ CreateParcel(s, "admin@zap", 1000, "Dhaka", "Dhaka")
    \/ \E p \in IdsSoFar : DeleteParcel(s, "admin@zap", p)
    \/ \E p \in IdsSoFar, rid \in RiderIds : AssignStart(s, "admin@zap", p, rid)
    \/ \E cred \in {"r1@zap", "r2@zap"}, p \in IdsSoFar, ds \in {"pending", "delivered"} :
          RiderStatusStart(s, cred, p, ds)
    \/ \E cred \in {"r1@zap", "r2@zap"}, p \in IdsSoFar : CashoutStart(s, cred, p)

CashStep(s) ==
    \/ RiderStatusFindParcel(s)
    \/ RiderStatusUpdate(s)
    \/ AssignFindRider(s)
    \/ AssignUpdate(s)
    \/ CashoutCheck(s)
    \/ CashoutInsert(s)

CashNext ==
    \/ \E s \in Slots : CashStart(s)
    \/ \E s \in Slots : CashStep(s)

CashSpec == Init /\ [][CashNext]_vars

\* The whole lifecycle of two parcels with requests served one after the
\* other: a request arrives only when no handler is in progress.
SeqStart(s) ==
    \/ nextId < 2 /\ CreateParcel(s, "admin@zap", 1000, "Dhaka", "Dhaka")
    \/ \E p \in IdsSoFar : DeleteParcel(s, "admin@zap", p)
    \/ \E p \in IdsSoFar : Pick(s, "r1@zap", p)
    \/ \E p \in IdsSoFar, rid \in RiderIds : AssignStart(s, "admin@zap", p, rid)
    \/ \E cred \in {"r1@zap", "r2@zap"}, p \in IdsSoFar, ds \in {"pending", "delivered"} :
          RiderStatusStart(s, cred, p, ds)
    \/ \E cred \in {"r1@zap", "r2@zap"}, p \in IdsSoFar : CashoutStart(s, cred, p)

SeqNext ==
    \/ AllFree /\ SeqStart("s1")
    \/ CashStep("s1")

SeqSpec == Init /\ [][SeqNext]_vars

\* The payment ledger under concurrent requests: parcels are created and
\* deleted while payments are recorded, with and without the required fields.
PayStart(s) ==
    \/ CreateParcel(s, "r1@zap", 1000, "Dhaka", "Sylhet")
    \/ \E p \in IdsSoFar : DeleteParcel(s, "r1@zap", p)
    \/ \E p \in IdsSoFar \cup {Null}, e \in {"r1@zap", Missing}, x \in {"tx1", Missing},
          a \in Amounts \cup {0, Null} : PaymentStart(s, "r1@zap", p, e, x, a)

PayNext ==
    \/ \E s \in Slots : PayStart(s)
    \/ \E s \in Slots : PaymentInsert(s)

PaySpec == Init /\ [][PayNext]_vars

\* The identity store and the rider registry with an application waiting:
\* rider 2 is pending and its user has not been promoted.
AccessInit ==
    /\ users = [InitUsers EXCEPT ![3].role = "user"]
    /\ riders = [InitRiders EXCEPT ![2].status = "pending"]
    /\ parcels = <<>>
    /\ payments = <<>>
    /\ cashouts = <<>>
    /\ tracking = <<>>
    /\ nextId = 0
    /\ clock = 0
    /\ req = [s \in Slots |-> IdleReq]
    /\ resp = NoResp

\* who calls: nobody (no credential), the admin, a rider
AccessCreds == {NoCred, "admin@zap", "r1@zap"}

\* Every endpoint that writes, and an admin-only read, called with and
\* without a credential, by the admin and by a rider, served one after the
\* other.
AccessStart(s) ==
    \/ /\ nextId = 0
       /\ \E cred \in {NoCred, "r1@zap"} : CreateParcel(s, cred, 1000, "Dhaka", "Dhaka")
    \/ \E cred \in AccessCreds, p \in IdsSoFar : DeleteParcel(s, cred, p)
    \/ \E p \in IdsSoFar : Pick(s, NoCred, p)
    \/ \E p \in IdsSoFar : RiderStatusStart(s, NoCred, p, "delivered")
    \/ \E p \in IdsSoFar : CashoutStart(s, NoCred, p)
    \/ \E p \in IdsSoFar : PaymentStart(s, NoCred, p, "r1@zap", "tx1", 50000)
    \/ \E cred \in AccessCreds, p \in IdsSoFar, rid \in {1, 0} : AssignStart(s, cred, p, rid)
    \/ \E cred \in AccessCreds : PendingRidersStart(s, cred)
    \/ \E cred \in AccessCreds, role \in {"admin", "user"} :
          UserRoleStart(s, cred, "r1@zap", role)
    \/ \E cred \in AccessCreds : PostRiderStart(s, cred, "Selim", "new@zap", "0193")
    \/ \E cred \in AccessCreds, status \in {"approved", "rejected"} :
          RiderApprovalStart(s, cred, 2, status, "r2@zap")
    \/ \E cred \in {NoCred, "r1@zap"} : PostUserQuery(s, cred, "new@zap", "Selim", "user", 0)
    \/ \E cred \in {NoCred, "r1@zap"}, p \in IdsSoFar : PostTracking(s, cred, p, "picked")
    \/ \E cred \in {NoCred, "r1@zap"} : CreatePaymentIntent(s, cred, 500)

AccessStep(s) ==
    \/ AssignFindRider(s)
    \/ AssignUpdate(s)
    \/ PendingRidersFind(s)
    \/ UserRoleUpdate(s)
    \/ PostRiderInsert(s)
    \/ RiderApprovalSetStatus(s)
    \/ RiderApprovalSetRole(s)
    \/ PostUserWrite(s)

AccessNext ==
    \/ AllFree /\ AccessStart("s1")
    \/ AccessStep("s1")

AccessSpec == AccessInit /\ [][AccessNext]_vars

\* no handler is in progress: every request was answered or is left without
\* an answer
Quiet == \A s \in Slots : req[s].pc \in {"idle", "hung"}

\* The same requests when a storage or gateway call can reject; a request
\* left without an answer does not keep the next one from being served.
FaultStart(s) ==
    \/ \E cred \in {"admin@zap", "r1@zap"} : VerifyAdminFails(s, cred)
    \/ \E cred \in {NoCred, "r1@zap"} : PostUserFails(s, cred)
    \/ \E cred \in {NoCred, "r1@zap"} : PostTrackingFails(s, cred)
    \/ \E cred \in {NoCred, "r1@zap"} : CreatePaymentIntentFails(s, cred)

FaultStep(s) ==
    \/ PendingRidersFindFails(s)
    \/ UserRoleUpdateFails(s)
    \/ PostRiderInsertFails(s)
    \/ RiderApprovalFails(s)

FaultNext ==
    \/ \E s \in Slots : Quiet /\ AccessStart(s)
    \/ \E s \in Slots : AccessStep(s)
    \/ \E s \in Slots : Quiet /\ FaultStart(s)
    \/ \E s \in Slots : FaultStep(s)

FaultSpec == AccessInit /\ [][FaultNext]_vars

\* The payment ledger when a storage call of POST /payments can reject.
PayFaultNext ==
    \/ \E s \in Slots : PayStart(s)
    \/ \E s \in Slots : PaymentInsert(s)
    \/ \E s \in Slots : PaymentUpdateFails(s, "r1@zap")
    \/ \E s \in Slots : PaymentInsertFails(s)

PayFaultSpec == Init /\ [][PayFaultNext]_vars

\* Delivery, cashout, payment and tracking of one parcel together, under
\* concurrent requests.
WholeStart(s) ==
    \/ nextId = 0 /\ CreateParcel(s, "admin@zap", 1000, "Dhaka", "Dhaka")
    \/ \E p \in IdsSoFar : DeleteParcel(s, "admin@zap", p)
    \/ \E p \in IdsSoFar : Pick(s, "r1@zap", p)
    \/ \E p \in IdsSoFar : AssignStart(s, "admin@zap", p, 1)
    \/ \E p \in IdsSoFar, ds \in {"pending", "delivered"} :
          RiderStatusStart(s, "r1@zap", p, ds)
    \/ \E p \in IdsSoFar : CashoutStart(s, "r1@zap", p)
    \/ \E p \in IdsSoFar : PaymentStart(s, "r1@zap", p, "r1@zap", "tx1", 50000)
    \/ \E p \in IdsSoFar : PostTracking(s, "r1@zap", p, "picked")

WholeStep(s) ==
    \/ CashStep(s)
    \/ PaymentInsert(s)

WholeNext ==
    \/ \E s \in Slots : WholeStart(s)
    \/ \E s \in Slots : WholeStep(s)

WholeSpec == Init /\ [][WholeNext]_vars

\* who calls without being an admin: nobody, a rider, someone not registered
Outsiders == {NoCred, "r1@zap", "new@zap"}

\* The identity store under concurrent requests of callers that are not
\* admins: users register and log in, and ask for a role to be changed.
UserStart(s) ==
    \/ \E cred \in {NoCred, "new@zap"}, email \in {"new@zap", "r1@zap"},
          role \in {"user", "admin"}, at \in {1, 2} :
          PostUserQuery(s, cred, email, "Selim", role, at)
    \/ \E cred \in Outsiders : UserRoleStart(s, cred, "r1@zap", "admin")

UserStep(s) ==
    \/ PostUserWrite(s)
    \/ UserRoleUpdate(s)

UserNext ==
    \/ \E s \in Slots : UserStart(s)
    \/ \E s \in Slots : UserStep(s)

UserSpec == AccessInit /\ [][UserNext]_vars

TypeOK ==
    /\ DOMAIN parcels \subseteq ParcelIds
    /\ Len(payments) <= MaxPayments
    /\ Len(cashouts) <= MaxCashouts
    /\ clock \in 0..MaxClock
    /\ Len(tracking) <= MaxTracking
    /\ Cardinality(DOMAIN riders) <= MaxRiders
    /\ Len(users) <= MaxUsers

----------------------------------------------------------------------------
(* Properties of the delivery lifecycle (LifeSpec) *)

Existing == DOMAIN parcels \cap DOMAIN parcels'

\* C3: a delivered parcel carries rider_earning = cost * 0.8 when the sender
\* district equals the receiver district and cost * 0.3 otherwise (in tenths:
\* cost * 8 and cost * 3), for every cost and pair of districts.
C3_EarningRate ==
    \A p \in DOMAIN parcels :
        parcels[p].delivery_status = "delivered" =>
            IF parcels[p].senderDistrict = parcels[p].receiverDistrict
            THEN parcels[p].rider_earning = parcels[p].cost * 8
            ELSE parcels[p].rider_earning = parcels[p].cost * 3

C3_Witness ==
    \E p \in DOMAIN parcels :
        /\ parcels[p].delivery_status = "delivered"
        /\ parcels[p].senderDistrict # parcels[p].receiverDistrict
        /\ parcels[p].cost = 25
        /\ parcels[p].rider_earning = 75
        /\ resp.msg = "Status updated successfully"

\* C4: rider_earning and delivered_at of a parcel are written only in the
\* step that moves delivery_status into delivered: never for a parcel that is
\* delivered already.
C4_EarningWrittenOnce ==
    [][\A p \in Existing :
          (\/ parcels'[p].rider_earning # parcels[p].rider_earning
           \/ parcels'[p].delivered_at # parcels[p].delivered_at)
          => /\ parcels[p].delivery_status # "delivered"
             /\ parcels'[p].delivery_status = "delivered"]_vars

AlreadyPicked(p) ==
    /\ parcels[p].picked_at # Null
    /\ parcels[p].delivery_status \in {"on_the_way", "delivered"}

\* a step of the pick handler: it answers with one of its two messages, and
\* it is the handler's only step (no request changes position, no tick)
PickStep ==
    /\ req' = req /\ clock' = clock
    /\ <<parcels', resp'>> # <<parcels, resp>>
    /\ resp'.msg \in {"Parcel marked as picked", "Parcel not found or already picked"}

\* C6: Pick of a parcel that is already picked changes nothing, and is
\* answered with the error when there is no parcel left to pick.
C6_PickNoOp ==
    [][PickStep =>
          /\ \A p \in Existing : AlreadyPicked(p) => parcels'[p] = parcels[p]
          /\ (\A p \in DOMAIN parcels : AlreadyPicked(p)) => resp'.status = 404]_vars

\* C7: every change of a parcel's delivery_status is one of the three forward
\* steps.
C7_ForwardOnly ==
    [][\A p \in Existing :
          parcels'[p].delivery_status # parcels[p].delivery_status
          => <<parcels[p].delivery_status, parcels'[p].delivery_status>> \in
                {<<"pending", "assigned">>, <<"assigned", "on_the_way">>,
                 <<"on_the_way", "delivered">>}]_vars

\* C8: a delivered parcel has an assigned rider.
C8_DeliveredHasRider ==
    \A p \in DOMAIN parcels :
        parcels[p].delivery_status = "delivered" =>
            /\ parcels[p].assigned_rider_id \in DOMAIN riders
            /\ parcels[p].assigned_rider_email # "none"

C8_Witness ==
    \E p \in DOMAIN parcels :
        /\ parcels[p].delivery_status = "delivered"
        /\ parcels[p].assigned_rider_id = 1
        /\ parcels[p].delivered_at # Null

----------------------------------------------------------------------------
(* Properties of the cashout ledger (CashSpec, SeqSpec) *)

\* the cashout records of parcel p
CashoutsOf(p) == {k \in 1..Len(cashouts) : cashouts[k].parcel_id = p}

\* C1: the cashout ledger never holds more than one record of a parcel,
\* however concurrent cashout requests interleave.
C1_AtMostOneCashout ==
    \A p \in ParcelIds : Cardinality(CashoutsOf(p)) <= 1

\* C2: with the requests served one after the other, a parcel has at most one
\* cashout record: a cashout that finds none appends exactly one, for its
\* parcel and rider, and a cashout that finds one is answered "Already cashed
\* out" and leaves the ledger as it was.
C2_SecondCashoutConflicts ==
    /\ [](\A p \in ParcelIds : Cardinality(CashoutsOf(p)) <= 1)
    /\ [][\A s \in Slots :
            /\ (/\ req[s].op = "cashout" /\ req[s].pc = "check" /\ req'[s] # req[s]
                /\ CashoutsOf(req[s].pid) # {})
               => /\ req'[s].pc = "idle"
                  /\ resp' = [status |-> 400, msg |-> "Already cashed out"]
                  /\ cashouts' = cashouts
            /\ (/\ req[s].op = "cashout" /\ req[s].pc = "check" /\ req'[s] # req[s]
                /\ CashoutsOf(req[s].pid) = {})
               => /\ req'[s].pc = "insert"
                  /\ cashouts' = cashouts
            /\ (req[s].op = "cashout" /\ req[s].pc = "insert" /\ req'[s] # req[s])
               => /\ Len(cashouts') = Len(cashouts) + 1
                  /\ SubSeq(cashouts', 1, Len(cashouts)) = cashouts
                  /\ cashouts'[Len(cashouts')].parcel_id = req[s].pid
                  /\ cashouts'[Len(cashouts')].rider_email = req[s].user
                  /\ resp'.status = 200]_vars

C2_Witness ==
    /\ resp = [status |-> 400, msg |-> "Already cashed out"]
    /\ Len(cashouts) = 1
    /\ cashouts[1].parcel_id \in DOMAIN parcels
    /\ parcels[cashouts[1].parcel_id].delivery_status = "delivered"
    /\ parcels[cashouts[1].parcel_id].assigned_rider_email = cashouts[1].rider_email

\* C18: the earning of a cashout record is the rider_earning of the parcel it
\* names, which for a parcel of cost 1000 within one district is 800 (8000
\* tenths).
C18_CashoutCopiesEarning ==
    \A k \in 1..Len(cashouts) :
        cashouts[k].parcel_id \in DOMAIN parcels =>
            LET d == parcels[cashouts[k].parcel_id] IN
               /\ cashouts[k].earning = d.rider_earning
               /\ (d.cost = 1000 /\ d.senderDistrict = d.receiverDistrict)
                  => cashouts[k].earning = 8000

\* created, assigned to r1, picked, delivered by r1, cashed out by r1, and the
\* repeated cashout refused
C18_Witness ==
    /\ Len(cashouts) = 1
    /\ cashouts[1].earning = 8000
    /\ cashouts[1].rider_email = "r1@zap"
    /\ cashouts[1].parcel_id \in DOMAIN parcels
    /\ LET d == parcels[cashouts[1].parcel_id] IN
          /\ d.cost = 1000
          /\ d.assigned_rider_id = 1
          /\ d.picked_at # Null
          /\ d.delivery_status = "delivered"
          /\ d.rider_earning = 8000
    /\ resp = [status |-> 400, msg |-> "Already cashed out"]

----------------------------------------------------------------------------
(* Properties of the payment ledger (PaySpec) *)

\* the payment records of parcel p
PaymentsOf(p) == {k \in 1..Len(payments) : payments[k].parcelId = p}

\* C9: a payment request with all four fields marks the parcel paid, and then
\* appends exactly one record, for that parcel, whose amount is the request's
\* amount divided by 100.
C9_PaymentRecorded ==
    [][\A s \in Slots :
          /\ (req[s].pc = "idle" /\ req'[s].op = "payment" /\ req'[s].pid \in DOMAIN parcels)
             => /\ parcels'[req'[s].pid].payment_status = "paid"
                /\ payments' = payments
          /\ (req[s].op = "payment" /\ req[s].pc = "insert" /\ req'[s] # req[s])
             => /\ Len(payments') = Len(payments) + 1
                /\ SubSeq(payments', 1, Len(payments)) = payments
                /\ LET rec == payments'[Len(payments')] IN
                      /\ rec.parcelId = req[s].pid
                      /\ rec.email = req[s].email
                      /\ rec.transactionId = req[s].txn
                      /\ rec.amount.frac \in 0..99
                      /\ rec.amount.whole * 100 + rec.amount.frac = req[s].amount
                /\ resp'.status = 200]_vars

C9_Witness ==
    /\ resp.msg = "Payment recorded, parcel marked as paid"
    /\ \E k \in 1..Len(payments) :
          /\ payments[k].amount = [whole |-> 500, frac |-> 0]
          /\ payments[k].parcelId \in DOMAIN parcels
          /\ parcels[payments[k].parcelId].payment_status = "paid"

\* C10: every parcel is referenced by at most one payment record.
C10_AtMostOnePayment ==
    \A p \in ParcelIds : Cardinality(PaymentsOf(p)) <= 1

----------------------------------------------------------------------------
(* Properties of access control and of failures (AccessSpec, FaultSpec) *)

Stores == <<users, riders, parcels, payments, cashouts, tracking>>

\* the user of rider i holds the rider role
Promoted(i) == Role(riders[i].email) = "rider"

\* C11: no rider is approved while the user with the rider's email does not
\* hold the role rider: not between the two writes of the approval, and not
\* after the second write failed.
C11_ApprovedIsPromoted ==
    \A i \in DOMAIN riders : riders[i].status = "approved" => Promoted(i)

\* a request to an admin-only endpoint arrives from cred at slot s
AdminRequest(s, cred) ==
    \/ \E p \in IdsSoFar, rid \in {1, 0} : AssignStart(s, cred, p, rid)
    \/ PendingRidersStart(s, cred)
    \/ \E role \in {"admin", "user"} : UserRoleStart(s, cred, "r1@zap", role)
    \/ PostRiderStart(s, cred, "Selim", "new@zap", "0193")
    \/ \E status \in {"approved", "rejected"} : RiderApprovalStart(s, cred, 2, status, "r2@zap")

\* C12: a request to an admin-only endpoint without a credential is answered
\* 401, and one from an identity whose role is not admin is answered 403; in
\* both cases the handler is not entered and no store changes.
C12_AdminOnly ==
    [][\A s \in Slots, cred \in AccessCreds :
          (/\ AdminRequest(s, cred)
           /\ \/ cred = NoCred
              \/ Role(cred) # "admin")
          => /\ resp' = IF cred = NoCred
                        THEN [status |-> 401, msg |-> "Unauthorized"]
                        ELSE [status |-> 403, msg |-> "Forbidden"]
             /\ req'[s].pc = "idle"
             /\ UNCHANGED Stores]_vars

\* a rider was refused while an application is pending and a parcel exists
C12_Witness ==
    /\ resp = [status |-> 403, msg |-> "Forbidden"]
    /\ AllFree
    /\ Role("r1@zap") = "rider"
    /\ riders[2].status = "pending"
    /\ DOMAIN parcels # {}

\* a request to an endpoint that writes arrives without a credential at slot s
AnonymousRequest(s) ==
    \/ AdminRequest(s, NoCred)
    \/ CreateParcel(s, NoCred, 1000, "Dhaka", "Dhaka")
    \/ \E p \in IdsSoFar :
          \/ DeleteParcel(s, NoCred, p)
          \/ Pick(s, NoCred, p)
          \/ RiderStatusStart(s, NoCred, p, "delivered")
          \/ CashoutStart(s, NoCred, p)
          \/ PaymentStart(s, NoCred, p, "r1@zap", "tx1", 50000)
          \/ PostTracking(s, NoCred, p, "picked")
    \/ req[s].op = "postUser" /\ req[s].user = NoCred /\ req'[s] # req[s]
    \/ CreatePaymentIntent(s, NoCred, 500)

\* C13: no request without a credential changes a stored record.
C13_NoAnonymousWrite ==
    [][\A s \in Slots : AnonymousRequest(s) => UNCHANGED Stores]_vars

\* C14: a parcel leaves the parcel store only in a delete request, and a
\* delete request of an identity whose role is not admin removes nothing.
C14_OnlyAdminDeletes ==
    [][/\ (DOMAIN parcels \ DOMAIN parcels' # {})
          => \E s \in Slots, cred \in AccessCreds, p \in IdsSoFar : DeleteParcel(s, cred, p)
       /\ \A s \in Slots, cred \in AccessCreds, p \in IdsSoFar :
             (/\ DeleteParcel(s, cred, p)
              /\ Role(cred) # "admin")
             => parcels' = parcels]_vars

\* C15: no request is left without a response by a storage or gateway call
\* that fails.
C15_EveryFailureAnswered ==
    \A s \in Slots : req[s].pc # "hung"

\* C19: an Assign call that names no rider of the registry is answered 404
\* "Rider not found" and leaves the parcels as they were.
C19_AssignUnknownRider ==
    [][\A s \in Slots :
          (/\ req[s].op = "assign" /\ req[s].pc = "findRider" /\ req'[s] # req[s]
           /\ req[s].rid \notin DOMAIN riders)
          => /\ resp' = [status |-> 404, msg |-> "Rider not found"]
             /\ req'[s].pc = "idle"
             /\ parcels' = parcels]_vars

C19_Witness ==
    /\ resp = [status |-> 404, msg |-> "Rider not found"]
    /\ AllFree
    /\ \E p \in DOMAIN parcels :
          /\ parcels[p].delivery_status = "pending"
          /\ parcels[p].assigned_rider_id = Null
          /\ parcels[p].assigned_rider_email = "none"

----------------------------------------------------------------------------
(* Properties of the refusals (LifeSpec, CashSpec, PaySpec) *)

\* C16: a rider status update for a parcel that does not exist or is not
\* assigned to the calling rider, or by a caller with no rider record, is
\* answered 404 and leaves the parcels as they were.
C16_StatusUpdateNotFound ==
    [][\A s \in Slots :
          /\ (/\ req[s].op = "status" /\ req[s].pc = "findParcel" /\ req'[s] # req[s]
              /\ ~(/\ req[s].pid \in DOMAIN parcels
                   /\ parcels[req[s].pid].assigned_rider_id = req[s].rid))
             => /\ resp' = [status |-> 404, msg |-> "Parcel not found or not assigned to you"]
                /\ req'[s].pc = "idle"
                /\ parcels' = parcels
          /\ \A cred \in Emails, p \in IdsSoFar, ds \in {"pending", "delivered"} :
                (/\ ~\E i \in DOMAIN riders : riders[i].email = cred
                 /\ RiderStatusStart(s, cred, p, ds))
                => /\ resp' = [status |-> 404, msg |-> "Rider not found"]
                   /\ req'[s].pc = "idle"
                   /\ parcels' = parcels]_vars

\* the parcel is assigned to rider 2 and a status update of it was refused
C16_Witness ==
    /\ resp = [status |-> 404, msg |-> "Parcel not found or not assigned to you"]
    /\ AllFree
    /\ \E p \in DOMAIN parcels :
          /\ parcels[p].assigned_rider_id = 2
          /\ parcels[p].delivery_status = "assigned"
          /\ parcels[p].delivered_at = Null

\* C17: a cashout for a parcel that, when the handler reads it, does not
\* exist, is not assigned to the caller or is not delivered is answered 404
\* and leaves the ledger as it was; a cashout goes on only for a parcel that
\* exists, is assigned to its caller and is delivered, and the ledger grows
\* only by the record of such a request.
C17_CashoutOnlyDelivered ==
    [][/\ \A s \in Slots, cred \in {"r1@zap", "r2@zap"}, p \in IdsSoFar :
             (/\ CashoutStart(s, cred, p)
              /\ ~(/\ p \in DOMAIN parcels
                   /\ parcels[p].assigned_rider_email = cred
                   /\ parcels[p].delivery_status = "delivered"))
             => /\ resp' = [status |-> 404, msg |-> "Parcel not found or not delivered"]
                /\ req'[s].pc = "idle"
                /\ cashouts' = cashouts
       /\ \A s \in Slots :
             (req[s].pc = "idle" /\ req'[s].op = "cashout")
             => /\ req'[s].pid \in DOMAIN parcels
                /\ parcels[req'[s].pid].assigned_rider_email = req'[s].user
                /\ parcels[req'[s].pid].delivery_status = "delivered"
                /\ cashouts' = cashouts
       /\ cashouts' # cashouts
          => \E s \in Slots :
                /\ req[s].op = "cashout" /\ req[s].pc = "insert" /\ req'[s].pc = "idle"
                /\ Len(cashouts') = Len(cashouts) + 1
                /\ SubSeq(cashouts', 1, Len(cashouts)) = cashouts
                /\ cashouts'[Len(cashouts')].parcel_id = req[s].pid
                /\ cashouts'[Len(cashouts')].rider_email = req[s].user]_vars

\* a parcel assigned to rider 1 that is not delivered, and a cashout refused
C17_Witness ==
    /\ resp = [status |-> 404, msg |-> "Parcel not found or not delivered"]
    /\ AllFree
    /\ cashouts = <<>>
    /\ \E p \in DOMAIN parcels :
          /\ parcels[p].assigned_rider_email = "r1@zap"
          /\ parcels[p].delivery_status = "assigned"

\* C20: a payment request that lacks the parcel id, the email, the
\* transaction id or the amount is answered 400 and changes neither the
\* parcels nor the payment ledger.
C20_MissingPaymentInfo ==
    [][\A s \in Slots, p \in IdsSoFar \cup {Null}, e \in {"r1@zap", Missing},
          x \in {"tx1", Missing}, a \in Amounts \cup {Null} :
          (/\ (p = Null \/ e = Missing \/ x = Missing \/ a = Null)
           /\ PaymentStart(s, "r1@zap", p, e, x, a))
          => /\ resp' = [status |-> 400, msg |-> "Missing payment information"]
             /\ req'[s].pc = "idle"
             /\ parcels' = parcels
             /\ payments' = payments]_vars

\* an unpaid parcel, an empty ledger and a payment refused
C20_Witness ==
    /\ resp = [status |-> 400, msg |-> "Missing payment information"]
    /\ payments = <<>>
    /\ AllFree
    /\ \E p \in DOMAIN parcels : parcels[p].payment_status = "unpaid"

----------------------------------------------------------------------------
(* Properties of interleaved requests and of references (CashSpec, PaySpec) *)

\* C23: the update of a rider status request is written only to a parcel
\* that is assigned to the calling rider when it is written, so that no
\* parcel becomes delivered while it is assigned to another rider, also when
\* an Assign falls between the handler's read and its update.
C23_StatusWrittenToOwnParcel ==
    [][\A s \in Slots :
          (/\ req[s].op = "status" /\ req[s].pc = "update" /\ req'[s] # req[s]
           /\ req[s].pid \in DOMAIN parcels)
          => /\ parcels[req[s].pid].assigned_rider_id = req[s].rid
             /\ parcels'[req[s].pid].delivery_status = "delivered"
                => parcels'[req[s].pid].assigned_rider_id = req[s].rid]_vars

\* C26: every payment record and every cashout record names a parcel that
\* is in the parcel store.
C26_LedgersReferToParcels ==
    /\ \A k \in 1..Len(payments) : payments[k].parcelId \in DOMAIN parcels
    /\ \A k \in 1..Len(cashouts) : cashouts[k].parcel_id \in DOMAIN parcels

\* C25: between requests, every parcel with payment_status paid has a
\* payment record, also after a payment whose ledger insert failed.
C25_PaidHasRecord ==
    AllFree =>
        \A p \in DOMAIN parcels :
            parcels[p].payment_status = "paid" => PaymentsOf(p) # {}

----------------------------------------------------------------------------
(* Properties of the whole life of a parcel (WholeSpec) *)

\* ledger new is ledger old, or ledger old with one entry added at its end
SameOrAppended(old, new) ==
    /\ Len(new) \in {Len(old), Len(old) + 1}
    /\ SubSeq(new, 1, Len(old)) = old

C27_PaidStaysPaid ==
    [][\A p \in Existing :
          parcels[p].payment_status = "paid" => parcels'[p].payment_status = "paid"]_vars

\* a parcel whose payment was recorded and that was delivered afterwards
C27_Witness ==
    /\ AllFree
    /\ Len(payments) = 1
    /\ resp = [status |-> 200, msg |-> "Status updated successfully"]
    /\ \E p \in DOMAIN parcels :
          /\ payments[1].parcelId = p
          /\ parcels[p].payment_status = "paid"
          /\ parcels[p].delivery_status = "delivered"

\* the fields of parcel p that belong to its delivery
DeliveryFields(d) ==
    <<d.delivery_status, d.assigned_rider_id, d.assigned_rider_name,
      d.assigned_rider_email, d.assigned_rider_phone, d.picked_at, d.delivered_at,
      d.rider_earning>>

\* C28: no step of Assign, Pick, the rider status update or Cashout changes
\* the payment_status of a parcel, and no step of a payment request changes
\* the delivery_status, the assigned rider or the rider_earning of a parcel.
C28_LifecyclesIndependent ==
    [][\A s \in Slots :
          /\ (\/ req[s].op \in {"assign", "status", "cashout"} /\ req'[s] # req[s]
              \/ \E p \in IdsSoFar :
                    \/ Pick(s, "r1@zap", p)
                    \/ AssignStart(s, "admin@zap", p, 1)
                    \/ CashoutStart(s, "r1@zap", p)
                    \/ \E ds \in {"pending", "delivered"} : RiderStatusStart(s, "r1@zap", p, ds))
             => \A q \in Existing : parcels'[q].payment_status = parcels[q].payment_status
          /\ (\/ req[s].op = "payment" /\ req'[s] # req[s]
              \/ \E p \in IdsSoFar : PaymentStart(s, "r1@zap", p, "r1@zap", "tx1", 50000))
             => /\ DOMAIN parcels' = DOMAIN parcels
                /\ \A q \in Existing :
                      DeliveryFields(parcels'[q]) = DeliveryFields(parcels[q])]_vars

\* a paid parcel was picked, and a picked parcel was paid
C28_Witness ==
    /\ AllFree
    /\ Len(payments) = 2
    /\ \E p \in DOMAIN parcels :
          /\ parcels[p].payment_status = "paid"
          /\ parcels[p].picked_at # Null
          /\ parcels[p].delivery_status = "on_the_way"
          /\ parcels[p].assigned_rider_id = 1
    /\ resp = [status |-> 200, msg |-> "Payment recorded, parcel marked as paid"]

----------------------------------------------------------------------------
(* Properties of the identity store (UserSpec) *)

\* C21: POST /users for an email that has a user changes the last_login of
\* that user and nothing else, for a new email it adds one user, and no two
\* users have the same email.
C21_UpsertByEmail ==
    /\ [](\A j, k \in 1..Len(users) : users[j].email = users[k].email => j = k)
    /\ [][\A s \in Slots :
            (req[s].op = "postUser" /\ req[s].pc = "upsert" /\ req'[s] # req[s])
            => IF \E k \in 1..Len(users) : users[k].email = req[s].email
               THEN /\ Len(users') = Len(users)
                    /\ \A k \in 1..Len(users) :
                          users'[k] = IF users[k].email = req[s].email
                                      THEN [users[k] EXCEPT !.last_login = req[s].ts]
                                      ELSE users[k]
               ELSE /\ Len(users') = Len(users) + 1
                    /\ SubSeq(users', 1, Len(users)) = users
                    /\ users'[Len(users')].email = req[s].email]_vars

\* C24: with no admin among the callers, no user other than the admin of
\* the initial store ever has the role admin.
C24_NoSelfMadeAdmin ==
    \A k \in 1..Len(users) : users[k].role = "admin" => users[k].email = "admin@zap"

====
